---- MODULE Spec2Model ----
(***************************************************************************)
(* A model of the product CRUD service: the products table (behind the     *)
(* data-access layer in internal/repository/product.go) and the request    *)
(* handlers of internal/handlers/product.go, one worker per in-flight      *)
(* request.  A worker's atomic steps are its store round trips and its     *)
(* readings of the clock; the code between two of them touches only the    *)
(* request's own variables and is folded into the step that follows.       *)
(*                                                                         *)
(* Units: the clock counts in the resolution of the TIMESTAMP columns;     *)
(* unit prices are in tenths of a cent (the float64 of the Go struct can   *)
(* carry more than the two decimals DECIMAL(10,2) keeps).                  *)
(***************************************************************************)
EXTENDS Integers, Sequences, FiniteSets, TLC

\* ------------------------------------------------------------------ bounds

\* Highest value the id sequence hands out.
MaxID == 3

\* Last instant of the clock.
MaxClock == 3

\* Exchanges the recording client makes before it stops.
MaxTrail == 5

\* ------------------------------------------------------- program constants

DefaultLimit == 50
MaxLimit == 100
DefaultOffset == 0

StatusOK == 200
StatusCreated == 201
StatusNoContent == 204
StatusBadRequest == 400
StatusNotFound == 404
StatusConflict == 409
StatusInternalServerError == 500

\* The zero time.Time and the zero int of an unset struct field.
ZeroTime == 0
ZeroInt == 0

\* First value of the SERIAL sequence.
FirstID == 1

\* ------------------------------------------------------------ request data

\* The request workers (one logical task per inbound request).
Procs == {"r1", "r2"}

\* A string is the sequence of its characters.
Digits == {"0", "1", "2", "3", "4", "5", "6", "7", "8", "9"}

DigitVal ==
    [c \in Digits |->
        CASE c = "0" -> 0 [] c = "1" -> 1 [] c = "2" -> 2 [] c = "3" -> 3
          [] c = "4" -> 4 [] c = "5" -> 5 [] c = "6" -> 6 [] c = "7" -> 7
          [] c = "8" -> 8 [] c = "9" -> 9]

\* The largest int, digit by digit (9223372036854775807), and the magnitude
\* of the smallest one.
MaxIntDigits ==
    <<"9","2","2","3","3","7","2","0","3","6","8","5","4","7","7","5","8","0","7">>

MinIntDigits ==
    <<"9","2","2","3","3","7","2","0","3","6","8","5","4","7","7","5","8","0","8">>

\* A decimal numeral too large for any int.
HugeNumeral ==
    <<"9","9","9","9","9","9","9","9","9","9","9","9","9","9","9","9","9","9","9","9">>

RECURSIVE StripZeros(_)
StripZeros(ds) ==
    IF Len(ds) > 1 /\ ds[1] = "0" THEN StripZeros(Tail(ds)) ELSE ds

\* a > b for two numerals of the same length.
RECURSIVE NumeralGreater(_, _)
NumeralGreater(a, b) ==
    IF a = <<>> THEN FALSE
    ELSE IF a[1] # b[1] THEN DigitVal[a[1]] > DigitVal[b[1]]
    ELSE NumeralGreater(Tail(a), Tail(b))

\* The magnitude ds does not fit an int of the given sign.
OutOfRange(ds, neg) ==
    LET m == StripZeros(ds)
        lim == IF neg THEN MinIntDigits ELSE MaxIntDigits
    IN  \/ Len(m) > Len(lim)
        \/ Len(m) = Len(lim) /\ NumeralGreater(m, lim)

RECURSIVE DigitsValue(_, _)
DigitsValue(ds, acc) ==
    IF ds = <<>> THEN acc
    ELSE DigitsValue(Tail(ds), acc * 10 + DigitVal[ds[1]])

\* strconv.Atoi with its error dropped: 0 for what it cannot convert.
AtoiErrorDropped(s) ==
    LET signed == s # <<>> /\ s[1] \in {"-", "+"}
        neg == s # <<>> /\ s[1] = "-"
        ds == IF signed THEN Tail(s) ELSE s
    IN  IF ds = <<>> \/ \E i \in 1..Len(ds) : ds[i] \notin Digits
        THEN [ok |-> TRUE, val |-> 0]
        ELSE IF OutOfRange(ds, neg)
        THEN [ok |-> TRUE, val |-> 0]
        ELSE [ok |-> TRUE,
              val |-> IF neg THEN 0 - DigitsValue(ds, 0) ELSE DigitsValue(ds, 0)]

\* strconv.Atoi: an optional sign, then decimal digits only; a value outside
\* the int range is an error as well.
Atoi(s) ==
    LET signed == s # <<>> /\ s[1] \in {"-", "+"}
        neg == s # <<>> /\ s[1] = "-"
        ds == IF signed THEN Tail(s) ELSE s
    IN  IF ds = <<>> \/ \E i \in 1..Len(ds) : ds[i] \notin Digits
        THEN [ok |-> FALSE, val |-> 0]
        ELSE IF OutOfRange(ds, neg)
        THEN [ok |-> FALSE, val |-> 0]
        ELSE [ok |-> TRUE,
              val |-> IF neg THEN 0 - DigitsValue(ds, 0) ELSE DigitsValue(ds, 0)]

\* ----------------------------------------------------------------- records

\* models.Product, and a row of the products table.
Product(id, sku, name, description, quantity, unit_price, created_at, updated_at) ==
    [id |-> id, sku |-> sku, name |-> name, description |-> description,
     quantity |-> quantity, unit_price |-> unit_price,
     created_at |-> created_at, updated_at |-> updated_at]

\* var product models.Product
ZeroProduct == Product(ZeroInt, "", "", "", ZeroInt, ZeroInt, ZeroTime, ZeroTime)

\* An error value: its own message and the cause it wraps ("none": nothing
\* wrapped; "unique_violation": the store refused a duplicate key; "fault":
\* any other failure of the store call, such as a lost connection or an
\* expired request context).
Err(msg, cause) == [msg |-> msg, cause |-> cause]

NoErr == Err("", "none")

ErrNotFound == Err("product not found", "none")

\* err.Error() == "product not found", the handlers' test for a missing row.
IsNotFoundText(e) == e.msg = "product not found" /\ e.cause = "none"

\* The kind of a data-access error as the handlers tell kinds apart: by its
\* text, "product not found" or anything else.
ErrKind(e) ==
    IF e = NoErr THEN "None"
    ELSE IF IsNotFoundText(e) THEN "NotFound"
    ELSE "Internal"

\* ------------------------------------------------------------------- store

\* DECIMAL(10,2): the store keeps a price rounded to whole cents.
RoundCents(m) == ((m + 5) \div 10) * 10

\* The column values of the row an INSERT or UPDATE writes for a struct.
DBRow(p) ==
    Product(p.id, p.sku, p.name, p.description, p.quantity,
            RoundCents(p.unit_price), p.created_at, p.updated_at)

\* A Scan with the two timestamp destinations in each other's place.
ScanSwapped(row) ==
    Product(row.id, row.sku, row.name, row.description, row.quantity,
            row.unit_price, row.updated_at, row.created_at)

\* rows.Scan / row.Scan: columns id, sku, name, description, quantity,
\* unit_price, created_at, updated_at into the struct's fields, in that order.
Scan(row) ==
    Product(row.id, row.sku, row.name, row.description, row.quantity,
            row.unit_price, row.created_at, row.updated_at)

\* The nil *models.Product.
NilProduct == ZeroProduct

\* The INSERT with the id taken as the row count plus one instead of from
\* the sequence.
InsertRowCountID(store, seq, product) ==
    IF \E r \in store : r.sku = product.sku
    THEN [store |-> store, seq |-> seq + 1, id |-> ZeroInt,
          cause |-> "unique_violation"]
    ELSE [store |-> store \cup {[DBRow(product) EXCEPT !.id = Cardinality(store) + 1]},
          seq |-> seq + 1, id |-> Cardinality(store) + 1, cause |-> "none"]

\* The INSERT on a table whose sku column lacks UNIQUE.
InsertRowNoUnique(store, seq, product) ==
    [store |-> store \cup {[DBRow(product) EXCEPT !.id = seq]},
     seq |-> seq + 1, id |-> seq, cause |-> "none"]

\* INSERT INTO products (...) VALUES (...) RETURNING id, on a table with
\* id SERIAL PRIMARY KEY and sku UNIQUE.  The sequence value is taken before
\* the unique index is consulted, so a refused insert uses one up.
InsertRow(store, seq, product) ==
    IF \E r \in store : r.sku = product.sku
    THEN [store |-> store, seq |-> seq + 1, id |-> ZeroInt,
          cause |-> "unique_violation"]
    ELSE [store |-> store \cup {[DBRow(product) EXCEPT !.id = seq]},
          seq |-> seq + 1, id |-> seq, cause |-> "none"]

\* The UPDATE on a table whose sku column has no unique index.
UpdateRowNoUnique(store, product) ==
    LET hit == {r \in store : r.id = product.id}
        new(r) == [r EXCEPT !.sku = product.sku,
                            !.name = product.name,
                            !.description = product.description,
                            !.quantity = product.quantity,
                            !.unit_price = RoundCents(product.unit_price),
                            !.updated_at = product.updated_at]
    IN  IF hit = {}
        THEN [store |-> store, affected |-> 0, cause |-> "none"]
        ELSE [store |-> (store \ hit) \cup {new(r) : r \in hit},
              affected |-> Cardinality(hit), cause |-> "none"]

\* The UPDATE with description left out of its SET list.
UpdateRowNoDescription(store, product) ==
    LET hit == {r \in store : r.id = product.id}
        new(r) == [r EXCEPT !.sku = product.sku,
                            !.name = product.name,
                            !.quantity = product.quantity,
                            !.unit_price = RoundCents(product.unit_price),
                            !.updated_at = product.updated_at]
    IN  IF hit = {}
        THEN [store |-> store, affected |-> 0, cause |-> "none"]
        ELSE IF \E r \in store \ hit : r.sku = product.sku
        THEN [store |-> store, affected |-> 0, cause |-> "unique_violation"]
        ELSE [store |-> (store \ hit) \cup {new(r) : r \in hit},
              affected |-> Cardinality(hit), cause |-> "none"]

\* UPDATE products SET sku, name, description, quantity, unit_price,
\* updated_at WHERE id = $1: the rows affected, or the unique index's refusal.
UpdateRow(store, product) ==
    LET hit == {r \in store : r.id = product.id}
        new(r) == [r EXCEPT !.sku = product.sku,
                            !.name = product.name,
                            !.description = product.description,
                            !.quantity = product.quantity,
                            !.unit_price = RoundCents(product.unit_price),
                            !.updated_at = product.updated_at]
    IN  IF hit = {}
        THEN [store |-> store, affected |-> 0, cause |-> "none"]
        ELSE IF \E r \in store \ hit : r.sku = product.sku
        THEN [store |-> store, affected |-> 0, cause |-> "unique_violation"]
        ELSE [store |-> (store \ hit) \cup {new(r) : r \in hit},
              affected |-> Cardinality(hit), cause |-> "none"]

\* A soft delete: the row is reported as affected and stays in the table.
DeleteRowSoft(store, id) ==
    LET hit == {r \in store : r.id = id}
    IN  [store |-> store, affected |-> Cardinality(hit)]

\* DELETE FROM products WHERE id = $1.
DeleteRow(store, id) ==
    LET hit == {r \in store : r.id = id}
    IN  [store |-> store \ hit, affected |-> Cardinality(hit)]

\* The orders of an ORDER BY created_at that lacks DESC.
OrderingsAscending(store) ==
    LET n == Cardinality(store)
    IN  {s \in [1..n -> store] :
            /\ \A i, j \in 1..n : i # j => s[i] # s[j]
            /\ \A i, j \in 1..n : i < j => s[i].created_at <= s[j].created_at}

\* The orders ORDER BY created_at DESC may return the table in: every
\* arrangement of all rows with non-increasing created_at (rows of equal
\* created_at come in any order).
Orderings(store) ==
    LET n == Cardinality(store)
    IN  {s \in [1..n -> store] :
            /\ \A i, j \in 1..n : i # j => s[i] # s[j]
            /\ \A i, j \in 1..n : i < j => s[i].created_at >= s[j].created_at}

\* LIMIT $1 OFFSET $2 of an ordered result.
Window(s, limit, offset) ==
    LET last == IF offset + limit < Len(s) THEN offset + limit ELSE Len(s)
    IN  IF offset >= Len(s) THEN <<>> ELSE SubSeq(s, offset + 1, last)

\* SELECT ... ORDER BY created_at DESC LIMIT $1 OFFSET $2: the possible
\* results.
SelectPage(store, limit, offset) ==
    {Window(s, limit, offset) : s \in Orderings(store)}

\* SELECT MAX(id) in place of COUNT(*).
CountRowsMaxID(store) ==
    IF store = {} THEN 0
    ELSE (CHOOSE r \in store : \A q \in store : q.id <= r.id).id

\* SELECT COUNT(*) FROM products.
CountRows(store) == Cardinality(store)

\* ------------------------------------------------------- data-access layer

\* productRepo.GetByID.
GetByID(store, id, fault) ==
    IF fault
    THEN [product |-> NilProduct, err |-> Err("failed to get product", "fault")]
    ELSE IF ~\E r \in store : r.id = id
    THEN [product |-> NilProduct, err |-> ErrNotFound]
    ELSE [product |-> Scan(CHOOSE r \in store : r.id = id), err |-> NoErr]

\* productRepo.GetBySKU.
GetBySKU(store, sku, fault) ==
    IF fault
    THEN [product |-> NilProduct, err |-> Err("failed to get product", "fault")]
    ELSE IF ~\E r \in store : r.sku = sku
    THEN [product |-> NilProduct, err |-> ErrNotFound]
    ELSE [product |-> Scan(CHOOSE r \in store : r.sku = sku), err |-> NoErr]

\* productRepo.Create, first part: now := time.Now() into both timestamps.
CreateStamp(product, now) ==
    [product EXCEPT !.created_at = now, !.updated_at = now]

\* productRepo.Create, second part: the INSERT and the Scan of the returned
\* id; every failure is wrapped the same way.
CreateExec(store, seq, product, fault) ==
    IF fault
    THEN [store |-> store, seq |-> seq, product |-> product,
          err |-> Err("failed to create product", "fault")]
    ELSE LET ins == InsertRow(store, seq, product)
         IN  IF ins.cause # "none"
             THEN [store |-> ins.store, seq |-> ins.seq, product |-> product,
                   err |-> Err("failed to create product", ins.cause)]
             ELSE [store |-> ins.store, seq |-> ins.seq,
                   product |-> [product EXCEPT !.id = ins.id], err |-> NoErr]

\* productRepo.Update without the refresh of UpdatedAt.
UpdateKeepsStamp(product, now) == product

\* productRepo.Update, first part: product.UpdatedAt = time.Now().
UpdateStamp(product, now) == [product EXCEPT !.updated_at = now]

\* productRepo.Update, second part: the UPDATE and its affected-row count.
UpdateExecStmt(store, product, fault) ==
    IF fault
    THEN [store |-> store, err |-> Err("failed to update product", "fault")]
    ELSE LET upd == UpdateRow(store, product)
         IN  IF upd.cause # "none"
             THEN [store |-> upd.store,
                   err |-> Err("failed to update product", upd.cause)]
             ELSE IF upd.affected = 0
             THEN [store |-> upd.store, err |-> ErrNotFound]
             ELSE [store |-> upd.store, err |-> NoErr]

\* productRepo.Delete without the look at the affected-row count.
DeleteNoRowCount(store, id, fault) ==
    IF fault
    THEN [store |-> store, err |-> Err("failed to delete product", "fault")]
    ELSE [store |-> DeleteRow(store, id).store, err |-> NoErr]

\* productRepo.Delete.
Delete(store, id, fault) ==
    IF fault
    THEN [store |-> store, err |-> Err("failed to delete product", "fault")]
    ELSE LET del == DeleteRow(store, id)
         IN  IF del.affected = 0
             THEN [store |-> del.store, err |-> ErrNotFound]
             ELSE [store |-> del.store, err |-> NoErr]

\* productRepo.List: the possible (products, err) results.
List(store, limit, offset, fault) ==
    IF fault
    THEN {[products |-> <<>>, err |-> Err("failed to list products", "fault")]}
    ELSE {[products |-> [i \in 1..Len(w) |-> Scan(w[i])], err |-> NoErr] :
             w \in SelectPage(store, limit, offset)}

\* productRepo.Count.
Count(store, fault) ==
    IF fault
    THEN [count |-> 0, err |-> Err("failed to count products", "fault")]
    ELSE [count |-> CountRows(store), err |-> NoErr]

\* ------------------------------------------------------------------- state

VARIABLES
    products,   \* the rows of the products table
    nextID,     \* the next value of the id sequence
    clock,      \* what time.Now() returns
    pc,         \* per worker: where its request stands
    req,        \* per worker: the request it serves
    loc,        \* per worker: the handler's local variables
    resp,       \* per worker: the response it wrote
    created,    \* history: the ids successful creates returned
    deleted,    \* history: the ids successful deletes removed
    wrote,      \* history: for each stored id, the struct fields its last
                \* successful create or update passed to the store
    trail       \* history: the exchanges (request, response) a recording
                \* client has completed, in order

vars ==
    <<products, nextID, clock, pc, req, loc, resp, created, deleted, wrote, trail>>

\* A decoded JSON body: malformed, or the struct json.Decode filled.
Body(wellformed, product) == [wellformed |-> wellformed, product |-> product]

MalformedBody == Body(FALSE, ZeroProduct)

\* The request a worker serves: the handler, the limit and offset query
\* parameters, the {id} path parameter, the body.
Request(kind, limit, offset, id, body) ==
    [kind |-> kind, limit |-> limit, offset |-> offset, id |-> id, body |-> body]

NoReq == Request("none", <<>>, <<>>, <<>>, MalformedBody)

\* The locals of a handler: product (var product / the fetched product),
\* existing (CreateProduct's pre-check result), err (the error of the last
\* data-access call), limit, offset, products and total (ListProducts); and
\* calls, the data-access operations the handler has invoked, in order, with
\* errs, what each of them returned as its error; and writes, the number of
\* times it has written a response (respondWithJSON's WriteHeader).
NoLoc ==
    [product |-> ZeroProduct, existing |-> NilProduct, err |-> NoErr,
     limit |-> ZeroInt, offset |-> ZeroInt, products |-> <<>>, total |-> ZeroInt,
     calls |-> <<>>, errs |-> <<>>, writes |-> ZeroInt]

\* The response envelope: status, the data payload (nothing, one product or
\* a list) and the pagination metadata, when there is one.
NoPagination == [present |-> FALSE, limit |-> 0, offset |-> 0, total |-> 0]

NoData == [kind |-> "nil", product |-> ZeroProduct, list |-> <<>>]

NoResp == [status |-> 0, data |-> NoData, pagination |-> NoPagination]

\* models.NewErrorResponse(code, message) through respondWithError.
ErrorResponse(code) == [status |-> code, data |-> NoData, pagination |-> NoPagination]

\* models.NewSuccessResponse(code, message, product).
ProductResponse(code, product) ==
    [status |-> code,
     data |-> [kind |-> "product", product |-> product, list |-> <<>>],
     pagination |-> NoPagination]

\* models.NewSuccessResponse(code, message, nil).
EmptyResponse(code) == [status |-> code, data |-> NoData, pagination |-> NoPagination]

\* models.NewPaginatedResponse(code, message, products, &PaginationMeta{...}).
PaginatedResponse(code, list, limit, offset, total) ==
    [status |-> code,
     data |-> [kind |-> "list", product |-> ZeroProduct, list |-> list],
     pagination |-> [present |-> TRUE, limit |-> limit, offset |-> offset,
                     total |-> total]]

\* The struct fields a create or update hands to the store for row id.
Written(id, product) ==
    [id |-> id, sku |-> product.sku, name |-> product.name,
     description |-> product.description, quantity |-> product.quantity,
     unit_price |-> product.unit_price, created_at |-> product.created_at,
     updated_at |-> product.updated_at]

Init ==
    /\ products = {}
    /\ nextID = FirstID
    /\ clock = 1
    /\ pc = [p \in Procs |-> "idle"]
    /\ req = [p \in Procs |-> NoReq]
    /\ loc = [p \in Procs |-> NoLoc]
    /\ resp = [p \in Procs |-> NoResp]
    /\ created = {}
    /\ deleted = {}
    /\ wrote = {}
    /\ trail = <<>>

\* A worker's step: its next position, its locals and, when the step ends in
\* respondWithJSON or respondWithError, the response written.
Step(p, newpc, newloc, newresp) ==
    /\ pc' = [pc EXCEPT ![p] = newpc]
    /\ loc' = [loc EXCEPT ![p] =
                 IF newresp = NoResp THEN newloc
                 ELSE [newloc EXCEPT !.writes = @ + 1]]
    /\ resp' = [resp EXCEPT ![p] = newresp]

\* One completed exchange as the client saw it, with the rows the store held
\* when the response was about to be written.
Exchange(request, response, before) ==
    [req |-> request, resp |-> response, before |-> before]

\* A recording client notes the exchange when its response is written, and
\* sends nothing after its last exchange.
Record(p, in) ==
    /\ (in.recorded > 0 /\ pc[p] = "idle") => Len(trail) < in.recorded
    /\ IF in.recorded > 0 /\ pc[p] # "done" /\ pc'[p] = "done"
       THEN trail' = Append(trail, Exchange(req'[p], resp'[p], products))
       ELSE trail' = trail

\* -------------------------------------------------------------- ListProducts

\* The limit without the clamp to 100.
ParseLimitNoClamp(l) ==
    IF l # <<>> /\ Atoi(l).ok /\ Atoi(l).val > 0
    THEN Atoi(l).val
    ELSE DefaultLimit

\* The limit ListProducts derives from the limit query parameter.
ParseLimit(l) ==
    IF l # <<>> /\ Atoi(l).ok /\ Atoi(l).val > 0
    THEN IF Atoi(l).val > MaxLimit THEN MaxLimit ELSE Atoi(l).val
    ELSE DefaultLimit

\* The offset ListProducts derives from the offset query parameter.
ParseOffset(o) ==
    IF o # <<>> /\ Atoi(o).ok /\ Atoi(o).val >= 0
    THEN Atoi(o).val
    ELSE DefaultOffset

\* ListProducts up to the return of repo.List.
ListProducts(p, in) ==
    /\ pc[p] = "idle"
    /\ \E l \in in.limits, o \in in.offsets, fault \in in.faults :
        LET limit == ParseLimit(l)
            offset == ParseOffset(o)
        IN  /\ req' = [req EXCEPT ![p] = Request("list", l, o, <<>>, MalformedBody)]
            /\ \E got \in List(products, limit, offset, fault) :
                LET l1 == [NoLoc EXCEPT !.limit = limit, !.offset = offset,
                                        !.products = got.products, !.err = got.err,
                                        !.calls = Append(@, "List"),
                                        !.errs = Append(@, got.err)]
                IN  IF got.err # NoErr
                    THEN Step(p, "done", l1, ErrorResponse(StatusInternalServerError))
                    ELSE Step(p, "list_count", l1, NoResp)
    /\ UNCHANGED <<products, nextID, clock, created, deleted, wrote>>
    /\ Record(p, in)

\* ListProducts from repo.Count to the response.
ListCount(p, in) ==
    /\ pc[p] = "list_count"
    /\ \E fault \in in.faults :
        LET got == Count(products, fault)
            l1 == [loc[p] EXCEPT !.total = got.count, !.err = got.err,
                                 !.calls = Append(@, "Count"),
                                 !.errs = Append(@, got.err)]
        IN  IF got.err # NoErr
            THEN Step(p, "done", l1, ErrorResponse(StatusInternalServerError))
            ELSE Step(p, "done", l1,
                      PaginatedResponse(StatusOK, loc[p].products, loc[p].limit,
                                        loc[p].offset, got.count))
    /\ UNCHANGED <<products, nextID, clock, req, created, deleted, wrote>>
    /\ Record(p, in)

\* ---------------------------------------------------------------- GetProduct

GetProduct(p, in) ==
    /\ pc[p] = "idle"
    /\ \E idStr \in in.ids, fault \in in.faults :
        /\ req' = [req EXCEPT ![p] = Request("get", <<>>, <<>>, idStr, MalformedBody)]
        /\ IF idStr = <<>>
           THEN Step(p, "done", NoLoc, ErrorResponse(StatusBadRequest))
           ELSE IF ~Atoi(idStr).ok
           THEN Step(p, "done", NoLoc, ErrorResponse(StatusBadRequest))
           ELSE LET got == GetByID(products, Atoi(idStr).val, fault)
                    l1 == [NoLoc EXCEPT !.product = got.product, !.err = got.err,
                                        !.calls = Append(@, "GetByID"),
                                        !.errs = Append(@, got.err)]
                IN  IF got.err # NoErr
                    THEN IF IsNotFoundText(got.err)
                         THEN Step(p, "done", l1, ErrorResponse(StatusNotFound))
                         ELSE Step(p, "done", l1,
                                   ErrorResponse(StatusInternalServerError))
                    ELSE Step(p, "done", l1, ProductResponse(StatusOK, got.product))
    /\ UNCHANGED <<products, nextID, clock, created, deleted, wrote>>
    /\ Record(p, in)

\* ------------------------------------------------------------- CreateProduct

\* The creates that have yet to run their INSERT (each will take a value of
\* the id sequence; a new create is admitted while one is left for it).
CreatesInFlight ==
    Cardinality({q \in Procs : pc[q] \in {"create_now", "create_insert"}})

\* CreateProduct up to the return of the repo.GetBySKU pre-check.
CreateProduct(p, in) ==
    /\ pc[p] = "idle"
    /\ nextID + CreatesInFlight <= MaxID
    /\ \E body \in in.bodies, fault \in in.faults :
        /\ req' = [req EXCEPT ![p] = Request("create", <<>>, <<>>, <<>>, body)]
        /\ IF ~body.wellformed
           THEN Step(p, "done", NoLoc, ErrorResponse(StatusBadRequest))
           ELSE LET product == body.product
                    l0 == [NoLoc EXCEPT !.product = product]
                IN  IF product.sku = ""
                    THEN Step(p, "done", l0, ErrorResponse(StatusBadRequest))
                    ELSE IF product.name = ""
                    THEN Step(p, "done", l0, ErrorResponse(StatusBadRequest))
                    ELSE LET got == GetBySKU(products, product.sku, fault)
                             l1 == [l0 EXCEPT !.existing = got.product,
                                              !.err = got.err,
                                              !.calls = Append(@, "GetBySKU"),
                                              !.errs = Append(@, got.err)]
                         IN  IF got.err = NoErr /\ got.product # NilProduct
                             THEN Step(p, "done", l1, ErrorResponse(StatusConflict))
                             ELSE Step(p, "create_now", l1, NoResp)
    /\ UNCHANGED <<products, nextID, clock, created, deleted, wrote>>
    /\ Record(p, in)

\* repo.Create reads the clock.
CreateNow(p, in) ==
    /\ pc[p] = "create_now"
    /\ Step(p, "create_insert",
            [loc[p] EXCEPT !.product = CreateStamp(loc[p].product, clock),
                           !.calls = Append(@, "Create")],
            NoResp)
    /\ UNCHANGED <<products, nextID, clock, req, created, deleted, wrote>>
    /\ Record(p, in)

\* repo.Create runs the INSERT; CreateProduct responds.
CreateInsert(p, in) ==
    /\ pc[p] = "create_insert"
    /\ \E fault \in in.faults :
        LET got == CreateExec(products, nextID, loc[p].product, fault)
            l1 == [loc[p] EXCEPT !.product = got.product, !.err = got.err,
                                 !.errs = Append(@, got.err)]
        IN  /\ products' = got.store
            /\ nextID' = got.seq
            /\ IF got.err # NoErr
               THEN /\ Step(p, "done", l1, ErrorResponse(StatusInternalServerError))
                    /\ UNCHANGED <<created, wrote>>
               ELSE /\ Step(p, "done", l1,
                            ProductResponse(StatusCreated, got.product))
                    /\ created' = created \cup {got.product.id}
                    /\ wrote' = wrote \cup {Written(got.product.id, loc[p].product)}
    /\ UNCHANGED <<clock, req, deleted>>
    /\ Record(p, in)

\* ------------------------------------------------------------- UpdateProduct

\* The decoded record with its own id field kept.
KeepBodyID(product, id) == product

\* product.ID = id: the path id written over the decoded record's id.
SetPathID(product, id) == [product EXCEPT !.id = id]

\* UpdateProduct up to repo.Update's reading of the clock.
UpdateProduct(p, in) ==
    /\ pc[p] = "idle"
    /\ \E idStr \in in.ids, body \in in.updates :
        /\ req' = [req EXCEPT ![p] = Request("update", <<>>, <<>>, idStr, body)]
        /\ IF idStr = <<>>
           THEN Step(p, "done", NoLoc, ErrorResponse(StatusBadRequest))
           ELSE IF ~Atoi(idStr).ok
           THEN Step(p, "done", NoLoc, ErrorResponse(StatusBadRequest))
           ELSE IF ~body.wellformed
           THEN Step(p, "done", NoLoc, ErrorResponse(StatusBadRequest))
           ELSE LET product == SetPathID(body.product, Atoi(idStr).val)
                    l0 == [NoLoc EXCEPT !.product = product]
                IN  IF product.sku = ""
                    THEN Step(p, "done", l0, ErrorResponse(StatusBadRequest))
                    ELSE IF product.name = ""
                    THEN Step(p, "done", l0, ErrorResponse(StatusBadRequest))
                    ELSE Step(p, "update_exec",
                              [l0 EXCEPT !.product = UpdateStamp(product, clock),
                                         !.calls = Append(@, "Update")],
                              NoResp)
    /\ UNCHANGED <<products, nextID, clock, created, deleted, wrote>>
    /\ Record(p, in)

\* repo.Update runs the UPDATE; UpdateProduct responds.
UpdateExec(p, in) ==
    /\ pc[p] = "update_exec"
    /\ \E fault \in in.faults :
        LET got == UpdateExecStmt(products, loc[p].product, fault)
            l1 == [loc[p] EXCEPT !.err = got.err, !.errs = Append(@, got.err)]
            id == loc[p].product.id
            old == CHOOSE w \in wrote : w.id = id
        IN  /\ products' = got.store
            /\ IF got.err # NoErr
               THEN /\ IF IsNotFoundText(got.err)
                       THEN Step(p, "done", l1, ErrorResponse(StatusNotFound))
                       ELSE Step(p, "done", l1,
                                 ErrorResponse(StatusInternalServerError))
                    /\ UNCHANGED wrote
               ELSE /\ Step(p, "done", l1,
                            ProductResponse(StatusOK, loc[p].product))
                    /\ wrote' = (wrote \ {old}) \cup
                           {[Written(id, loc[p].product)
                               EXCEPT !.created_at = old.created_at]}
    /\ UNCHANGED <<nextID, clock, req, created, deleted>>
    /\ Record(p, in)

\* ------------------------------------------------------------- DeleteProduct

DeleteProduct(p, in) ==
    /\ pc[p] = "idle"
    /\ \E idStr \in in.ids, fault \in in.faults :
        /\ req' = [req EXCEPT ![p] = Request("delete", <<>>, <<>>, idStr, MalformedBody)]
        /\ IF idStr = <<>>
           THEN /\ Step(p, "done", NoLoc, ErrorResponse(StatusBadRequest))
                /\ UNCHANGED <<products, deleted, wrote>>
           ELSE IF ~Atoi(idStr).ok
           THEN /\ Step(p, "done", NoLoc, ErrorResponse(StatusBadRequest))
                /\ UNCHANGED <<products, deleted, wrote>>
           ELSE LET id == Atoi(idStr).val
                    got == Delete(products, id, fault)
                    l1 == [NoLoc EXCEPT !.err = got.err,
                                        !.calls = Append(@, "Delete"),
                                        !.errs = Append(@, got.err)]
                IN  /\ products' = got.store
                    /\ IF got.err # NoErr
                       THEN /\ IF IsNotFoundText(got.err)
                               THEN Step(p, "done", l1, ErrorResponse(StatusNotFound))
                               ELSE Step(p, "done", l1,
                                         ErrorResponse(StatusInternalServerError))
                            /\ UNCHANGED <<deleted, wrote>>
                       ELSE /\ Step(p, "done", l1, EmptyResponse(StatusNoContent))
                            /\ deleted' = deleted \cup {id}
                            /\ wrote' = {w \in wrote : w.id # id}
    /\ UNCHANGED <<nextID, clock, created>>
    /\ Record(p, in)

\* --------------------------------------------------------------- environment

\* The response is on the wire; the worker takes the next request.
Finish(p, in) ==
    /\ pc[p] = "done"
    /\ pc' = [pc EXCEPT ![p] = "idle"]
    /\ req' = [req EXCEPT ![p] = NoReq]
    /\ loc' = [loc EXCEPT ![p] = NoLoc]
    /\ resp' = [resp EXCEPT ![p] = NoResp]
    /\ UNCHANGED <<products, nextID, clock, created, deleted, wrote>>
    /\ Record(p, in)

\* Time passes.
Tick ==
    /\ clock < MaxClock
    /\ clock' = clock + 1
    /\ UNCHANGED <<products, nextID, pc, req, loc, resp, created, deleted, wrote,
                   trail>>

\* -------------------------------------------------------------------- inputs

\* The name, description, quantity and unit price of a request body.
Payload(name, description, quantity, unit_price) ==
    [name |-> name, description |-> description, quantity |-> quantity,
     unit_price |-> unit_price]

\* A well-formed body: its id field (0 when absent), its SKU, its payload.
ValidBody(id, sku, pl) ==
    Body(TRUE, Product(id, sku, pl.name, pl.description, pl.quantity,
                       pl.unit_price, ZeroTime, ZeroTime))

Widget == Payload("widget", "", 0, 0)

Gadget == Payload("gadget", "new", 20, 19995)

\* What a single client sends to exercise the CRUD contract: every shape of
\* path id and body the handlers tell apart.
CrudBodies ==
    {MalformedBody, ValidBody(0, "", Widget), ValidBody(0, "A", Payload("", "", 0, 0))}
    \cup {ValidBody(id, sku, pl) :
            id \in {0, 2}, sku \in {"A", "B"}, pl \in {Widget, Gadget}}

CrudInputs ==
    [limits |-> {<<>>, <<"1">>},
     offsets |-> {<<>>, <<"1">>},
     ids |-> {<<>>, <<"1">>, <<"2">>, <<"3">>, <<"9">>, <<"x">>},
     bodies |-> CrudBodies,
     updates |-> CrudBodies,
     faults |-> {FALSE},
     recorded |-> 0]

\* The same client on a store whose calls may fail.
FaultInputs == [CrudInputs EXCEPT !.faults = BOOLEAN]

\* What a single client sends to exercise paging: every shape of limit and
\* offset query parameter ListProducts tells apart, over up to three rows.
PageInputs ==
    [limits |-> {<<>>, <<"x">>, <<"0">>, <<"-", "5">>, <<"1">>, <<"2">>,
                 <<"1", "0", "0">>, <<"5", "0", "0">>, HugeNumeral},
     offsets |-> {<<>>, <<"x">>, <<"-", "1">>, <<"0">>, <<"1">>, <<"2">>,
                  <<"5">>, HugeNumeral},
     ids |-> {<<"1">>, <<"2">>},
     bodies |-> {ValidBody(0, sku, Widget) : sku \in {"A", "B", "C"}},
     updates |-> {ValidBody(0, sku, Widget) : sku \in {"A", "B", "C"}},
     faults |-> {FALSE},
     recorded |-> 0]

\* What two clients racing each other send: valid requests on two SKUs and
\* one id, on a store that answers.
RaceInputs ==
    [limits |-> {<<>>},
     offsets |-> {<<>>},
     ids |-> {<<"1">>},
     bodies |-> {ValidBody(0, sku, Widget) : sku \in {"A", "B"}},
     updates |-> {ValidBody(0, sku, Widget) : sku \in {"A", "B"}},
     faults |-> {FALSE},
     recorded |-> 0]

\* The gadget with another quantity on hand.
Restocked == [Gadget EXCEPT !.quantity = 25]

\* What a client that walks one product through its life sends, keeping a
\* record of its exchanges: requests on one SKU and the first id, the
\* gadget posted and put again with another quantity.
FlowInputs ==
    [limits |-> {<<>>},
     offsets |-> {<<>>},
     ids |-> {<<"1">>},
     bodies |-> {ValidBody(0, "A", Gadget)},
     updates |-> {ValidBody(0, "A", Restocked)},
     faults |-> {FALSE},
     recorded |-> MaxTrail]

\* ------------------------------------------------------------ specifications

Handle(p, in) ==
    \/ ListProducts(p, in)
    \/ ListCount(p, in)
    \/ GetProduct(p, in)
    \/ CreateProduct(p, in)
    \/ CreateNow(p, in)
    \/ CreateInsert(p, in)
    \/ UpdateProduct(p, in)
    \/ UpdateExec(p, in)
    \/ DeleteProduct(p, in)
    \/ Finish(p, in)

\* One client, one request at a time, on a store that answers every call.
Next ==
    \/ Tick
    \/ Handle("r1", CrudInputs)

Spec == Init /\ [][Next]_vars

\* One client, on a store whose calls may fail.
NextFault ==
    \/ Tick
    \/ Handle("r1", FaultInputs)

SpecFault == Init /\ [][NextFault]_vars

\* One client paging through the list.
NextPage ==
    \/ Tick
    \/ Handle("r1", PageInputs)

SpecPage == Init /\ [][NextPage]_vars

\* Concurrent requests.
NextConc ==
    \/ Tick
    \/ \E p \in Procs : Handle(p, RaceInputs)

SpecConc == Init /\ [][NextConc]_vars

\* What a client sends during a store outage: the requests of a product's
\* life, any store call of which may fail or be cut off by the request
\* context's deadline.
OutageInputs == [FlowInputs EXCEPT !.faults = BOOLEAN, !.recorded = 0]

\* One client on a failing store.  A handler that has begun runs on: every
\* store call returns, with its result or with the error of the context's
\* deadline.
NextOutage ==
    \/ Tick
    \/ Handle("r1", OutageInputs)

SpecOutage ==
    /\ Init /\ [][NextOutage]_vars
    /\ WF_vars(ListCount("r1", OutageInputs))
    /\ WF_vars(CreateNow("r1", OutageInputs))
    /\ WF_vars(CreateInsert("r1", OutageInputs))
    /\ WF_vars(UpdateExec("r1", OutageInputs))

\* One client walking a product through its life, one request at a time.
NextFlow ==
    \/ Tick
    \/ Handle("r1", FlowInputs)

SpecFlow == Init /\ [][NextFlow]_vars

\* ---------------------------------------------------------------- properties

\* The worker's step that ran a handler's first store call (or rejected the
\* request before any).
Began(p, kind) == pc[p] = "idle" /\ req'[p].kind = kind

\* The worker's step from one position to another.
Moved(p, from, to) == pc[p] = from /\ pc'[p] = to

\* The rows of a store with the given id, the given SKU.
RowsByID(store, id) == {r \in store : r.id = id}

RowsBySKU(store, sku) == {r \in store : r.sku = sku}

\* C1: in every reachable state, under any interleaving of concurrent
\* creates, updates and deletes, no two stored products have the same SKU.
C1_SKUUnique ==
    \A r1, r2 \in products : r1.sku = r2.sku => r1 = r2

\* Two creates of one SKU both passed the pre-check; one inserted its row and
\* the store refused the other.
C1_Witness ==
    \E p, q \in Procs :
        /\ p # q
        /\ pc[p] = "done" /\ req[p].kind = "create"
        /\ loc[p].err.cause = "unique_violation"
        /\ pc[q] = "done" /\ req[q].kind = "create"
        /\ resp[q].status = StatusCreated
        /\ loc[q].product.sku = loc[p].product.sku
        /\ loc[q].product \in {Scan(r) : r \in products}

\* C2: a create with valid SKU and name that is rejected because a product
\* with that SKU already exists is answered 409, whether the pre-check found
\* the product or the insert violated the uniqueness constraint.
C2_DuplicateAnswered409 ==
    \A p \in Procs :
        (/\ pc[p] = "done" /\ req[p].kind = "create"
         /\ \/ loc[p].existing # NilProduct
            \/ loc[p].err.cause = "unique_violation")
        => resp[p].status = StatusConflict

\* C3: a create of a SKU that an earlier create stored fails with an error of
\* kind Conflict, and the store is left as it was.
C3_DuplicateCreateIsConflict ==
    [][\A p \in Procs :
        (/\ Moved(p, "create_insert", "done")
         /\ RowsBySKU(products, loc[p].product.sku) # {})
        => /\ ErrKind(loc'[p].err) = "Conflict"
           /\ products' = products]_vars

\* C4: a create call with a SKU not currently stored succeeds; the returned
\* record has a non-zero identifier that no earlier create returned (deleted
\* records included), and its creation timestamp equals its update timestamp.
C4_CreateReturnsFreshID ==
    [][\A p \in Procs :
        (/\ Moved(p, "create_insert", "done")
         /\ RowsBySKU(products, loc[p].product.sku) = {})
        => /\ loc'[p].err = NoErr
           /\ loc'[p].product.id # ZeroInt
           /\ loc'[p].product.id \notin created
           /\ loc'[p].product.created_at = loc'[p].product.updated_at
           /\ loc'[p].product.created_at # ZeroTime]_vars

\* A create succeeded after an earlier record had been created and deleted.
C4_Witness ==
    \E p \in Procs :
        /\ pc[p] = "done" /\ req[p].kind = "create"
        /\ loc[p].err = NoErr /\ resp[p].status = StatusCreated
        /\ deleted # {}
        /\ loc[p].product.id \notin deleted
        /\ RowsByID(products, loc[p].product.id) # {}

\* The row the store holds for what a create or update passed to it.
StoredAs(w) ==
    Product(w.id, w.sku, w.name, w.description, w.quantity,
            RoundCents(w.unit_price), w.created_at, w.updated_at)

\* The request body passed CreateProduct's validation.
ValidCreate(r) ==
    r.body.wellformed /\ r.body.product.sku # "" /\ r.body.product.name # ""

\* C5: getByID(id) and getBySKU(sku) fail with NotFound exactly when no
\* stored row has that id / SKU, and otherwise return a record whose every
\* field equals the stored row as the most recent successful create or
\* update of that row wrote it.
C5_GetReturnsStoredRow ==
    [][\A p \in Procs :
        /\ (Began(p, "get") /\ Atoi(req'[p].id).ok) =>
            LET id == Atoi(req'[p].id).val
                hit == {w \in wrote : w.id = id}
            IN  /\ (RowsByID(products, id) = {}) <=> (hit = {})
                /\ (hit = {}) <=> (ErrKind(loc'[p].err) = "NotFound")
                /\ hit # {} => /\ loc'[p].err = NoErr
                               /\ \A w \in hit : loc'[p].product = StoredAs(w)
        /\ (Began(p, "create") /\ ValidCreate(req'[p])) =>
            LET sku == req'[p].body.product.sku
                hit == {w \in wrote : w.sku = sku}
            IN  /\ (RowsBySKU(products, sku) = {}) <=> (hit = {})
                /\ (hit = {}) <=> (ErrKind(loc'[p].err) = "NotFound")
                /\ hit # {} => /\ loc'[p].err = NoErr
                               /\ \A w \in hit : loc'[p].existing = StoredAs(w)]_vars

\* A get returned a row that an update had rewritten after its creation, the
\* price as the store rounded it.
C5_Witness ==
    \E p \in Procs :
        /\ pc[p] = "done" /\ req[p].kind = "get"
        /\ resp[p].status = StatusOK
        /\ resp[p].data.product.name = Gadget.name
        /\ resp[p].data.product.unit_price = RoundCents(Gadget.unit_price)
        /\ resp[p].data.product.updated_at > resp[p].data.product.created_at
        /\ resp[p].data.product \in products

\* C6 as claimed: update on an identifier that is not stored fails with
\* NotFound and leaves the store unchanged; on a stored identifier it
\* overwrites SKU, name, description, quantity and unit price with the
\* supplied values and sets an update timestamp strictly greater than the
\* row's previous one.
C6_UpdateStrictlyLater ==
    [][\A p \in Procs :
        Moved(p, "update_exec", "done") =>
            LET arg == loc[p].product
                hit == RowsByID(products, arg.id)
            IN  /\ hit = {} => /\ ErrKind(loc'[p].err) = "NotFound"
                               /\ products' = products
                /\ \A old \in hit :
                     \E new \in RowsByID(products', arg.id) :
                        /\ new.sku = arg.sku
                        /\ new.name = arg.name
                        /\ new.description = arg.description
                        /\ new.quantity = arg.quantity
                        /\ new.unit_price = RoundCents(arg.unit_price)
                        /\ new.updated_at > old.updated_at]_vars

\* C6, amended: update on an identifier that is not stored fails with
\* NotFound and leaves the store unchanged; on a stored identifier, when the
\* supplied SKU belongs to another row it fails with an Internal error and
\* leaves the store unchanged, and otherwise it overwrites SKU, name,
\* description, quantity and unit price (rounded to cents) with the supplied
\* values, keeps id and creation timestamp, and sets the update timestamp to
\* the time the call read from the clock, which is not earlier than the
\* row's previous update timestamp (and equal to it when the clock has not
\* advanced in between).
C6_UpdateOverwrites ==
    [][\A p \in Procs :
        Moved(p, "update_exec", "done") =>
            LET arg == loc[p].product
                hit == RowsByID(products, arg.id)
                taken == RowsBySKU(products, arg.sku) \ hit
            IN  /\ hit = {} => /\ ErrKind(loc'[p].err) = "NotFound"
                               /\ products' = products
                /\ (hit # {} /\ taken # {}) => /\ ErrKind(loc'[p].err) = "Internal"
                                              /\ products' = products
                /\ (hit # {} /\ taken = {}) =>
                     /\ loc'[p].err = NoErr
                     /\ \A old \in hit :
                          /\ products' = (products \ {old}) \cup
                                {Product(old.id, arg.sku, arg.name, arg.description,
                                         arg.quantity, RoundCents(arg.unit_price),
                                         old.created_at, arg.updated_at)}
                          /\ arg.updated_at >= old.updated_at]_vars

\* An update rewrote a stored row with another payload at a later time.
C6_Witness ==
    \E p \in Procs :
        /\ pc[p] = "done" /\ req[p].kind = "update"
        /\ resp[p].status = StatusOK
        /\ \E r \in RowsByID(products, loc[p].product.id) :
             /\ r.name = Gadget.name /\ r.description = Gadget.description
             /\ r.updated_at > r.created_at
             /\ r.updated_at = loc[p].product.updated_at

\* C7: delete on an identifier that is not stored fails with NotFound and
\* leaves the store unchanged; a successful delete removes the row, and from
\* then on no row ever has that identifier again and every getByID of it
\* fails with NotFound, whatever creates, updates and deletes follow.
C7_DeletedStaysGone ==
    [][/\ \A p \in Procs :
            (Began(p, "delete") /\ Atoi(req'[p].id).ok) =>
                LET id == Atoi(req'[p].id).val
                IN  /\ RowsByID(products, id) = {} =>
                          /\ ErrKind(loc'[p].err) = "NotFound"
                          /\ products' = products
                    /\ RowsByID(products, id) # {} =>
                          /\ loc'[p].err = NoErr
                          /\ id \in deleted'
                          /\ products' = products \ RowsByID(products, id)
       /\ \A id \in deleted' : RowsByID(products', id) = {}
       /\ \A p \in Procs :
            (Began(p, "get") /\ Atoi(req'[p].id).ok
                /\ Atoi(req'[p].id).val \in deleted) =>
                ErrKind(loc'[p].err) = "NotFound"]_vars

\* A get of a deleted identifier was answered 404 while a record created
\* after the delete is stored.
C7_Witness ==
    \E p \in Procs :
        /\ pc[p] = "done" /\ req[p].kind = "get"
        /\ Atoi(req[p].id).ok /\ Atoi(req[p].id).val \in deleted
        /\ ErrKind(loc[p].err) = "NotFound"
        /\ resp[p].status = StatusNotFound
        /\ \E r \in products : r.id > Atoi(req[p].id).val

DistinctCreationTimes(store) ==
    \A r1, r2 \in store : r1.created_at = r2.created_at => r1 = r2

Min2(a, b) == IF a < b THEN a ELSE b

Max2(a, b) == IF a > b THEN a ELSE b

\* C8: on a store of N rows with distinct creation times, list(limit, offset)
\* with limit >= 1 and offset >= 0 returns without error the rows at
\* positions offset .. offset+limit-1 of the rows sorted by creation time
\* descending: min(limit, max(0, N - offset)) rows, the row at place i of
\* the result having exactly offset + i - 1 rows created after it, and the
\* empty sequence when offset >= N.
C8_ListReturnsWindow ==
    [][\A p \in Procs :
        (Began(p, "list") /\ DistinctCreationTimes(products)) =>
            LET limit == loc'[p].limit
                offset == loc'[p].offset
                page == loc'[p].products
                n == Cardinality(products)
            IN  /\ limit >= 1 /\ offset >= 0
                /\ loc'[p].err = NoErr
                /\ Len(page) = Min2(limit, Max2(0, n - offset))
                /\ offset >= n => page = <<>>
                /\ \A i \in 1..Len(page) :
                     /\ page[i] \in products
                     /\ Cardinality({r \in products :
                            r.created_at > page[i].created_at}) = offset + i - 1]_vars

\* A list with limit 1 and offset 1 over three rows of distinct creation
\* times returned the one row in the middle.
C8_Witness ==
    \E p \in Procs :
        /\ pc[p] = "list_count" /\ req[p].kind = "list"
        /\ Cardinality(products) = 3 /\ DistinctCreationTimes(products)
        /\ loc[p].limit = 1 /\ loc[p].offset = 1
        /\ Len(loc[p].products) = 1
        /\ \E a, b \in products :
             a.created_at < loc[p].products[1].created_at
             /\ loc[p].products[1].created_at < b.created_at

\* C9: count() returns the number of rows currently stored, the successful
\* creates minus the successful deletes, whatever limit and offset the list
\* call before it used.
C9_CountIsRowCount ==
    [][\A p \in Procs :
        Moved(p, "list_count", "done") =>
            /\ loc'[p].err = NoErr
            /\ loc'[p].total = Cardinality(created) - Cardinality(deleted)
            /\ loc'[p].total = Cardinality(products)
            /\ resp'[p].pagination.total = loc'[p].total]_vars

\* After three creates and a delete, a list whose page holds one row reports
\* a total of two.
C9_Witness ==
    \E p \in Procs :
        /\ pc[p] = "done" /\ req[p].kind = "list"
        /\ resp[p].status = StatusOK
        /\ Cardinality(created) = 3 /\ Cardinality(deleted) = 1
        /\ resp[p].pagination.total = 2
        /\ Len(resp[p].data.list) = 1

\* A query parameter as a number: an optional sign and decimal digits.
NumeralDigits(s) == IF s # <<>> /\ s[1] \in {"-", "+"} THEN Tail(s) ELSE s

IsNumeral(s) ==
    /\ NumeralDigits(s) # <<>>
    /\ \A i \in 1..Len(NumeralDigits(s)) : NumeralDigits(s)[i] \in Digits

Magnitude(s) == StripZeros(NumeralDigits(s))

IsZero(s) == Magnitude(s) = <<"0">>

IsNegative(s) == s[1] = "-" /\ ~IsZero(s)

\* The decimal digits of a natural number.
RECURSIVE Decimal(_)
Decimal(n) ==
    IF n < 10 THEN <<CHOOSE c \in Digits : DigitVal[c] = n>>
    ELSE Append(Decimal(n \div 10), CHOOSE c \in Digits : DigitVal[c] = n % 10)

\* The numeral is above 100.
Above100(s) ==
    \/ Len(Magnitude(s)) > 3
    \/ Len(Magnitude(s)) = 3 /\ Magnitude(s) # <<"1", "0", "0">>

\* The limit and offset the claim gives for a query parameter, as digits.
ClaimedLimit(s) ==
    IF ~IsNumeral(s) \/ IsZero(s) \/ IsNegative(s) THEN Decimal(DefaultLimit)
    ELSE IF Above100(s) THEN Decimal(MaxLimit)
    ELSE Magnitude(s)

ClaimedOffset(s) ==
    IF ~IsNumeral(s) \/ IsNegative(s) THEN Decimal(DefaultOffset)
    ELSE Magnitude(s)

\* The numeral surely fits an int (fewer digits than the largest int has),
\* surely does not (more digits).
FitsInt(s) == Len(Magnitude(s)) < Len(MaxIntDigits)

ExceedsInt(s) == Len(Magnitude(s)) > Len(MaxIntDigits)

\* The limit and offset with a numeral that exceeds the int range treated
\* like a non-numeric parameter.
AmendedLimit(s) ==
    IF IsNumeral(s) /\ ExceedsInt(s) THEN Decimal(DefaultLimit) ELSE ClaimedLimit(s)

AmendedOffset(s) ==
    IF IsNumeral(s) /\ ExceedsInt(s) THEN Decimal(DefaultOffset) ELSE ClaimedOffset(s)

\* The list requests past their call of the data-access list operation.
Listing(p) == req[p].kind = "list" /\ pc[p] \in {"list_count", "done"}

\* C10 as claimed: for every value of the limit and offset query parameters
\* the list operation is called with a limit in [1,100] and an offset >= 0;
\* a limit above 100 becomes 100, a non-numeric or non-positive limit 50, a
\* negative or non-numeric offset 0, any other numeric value is passed
\* through unchanged; the pagination metadata carries the same values.
C10_AsClaimed ==
    \A p \in Procs :
        Listing(p) =>
            /\ loc[p].limit \in 1..MaxLimit /\ loc[p].offset >= 0
            /\ Decimal(loc[p].limit) = ClaimedLimit(req[p].limit)
            /\ Decimal(loc[p].offset) = ClaimedOffset(req[p].offset)
            /\ resp[p].status = StatusOK =>
                 /\ resp[p].pagination.present
                 /\ resp[p].pagination.limit = loc[p].limit
                 /\ resp[p].pagination.offset = loc[p].offset

\* C10, amended: the same, with a numeric value outside the int range
\* treated like a non-numeric one (limit 50, offset 0) instead of being
\* clamped or passed through.
C10_ParsedQuery ==
    \A p \in Procs :
        Listing(p) =>
            /\ loc[p].limit \in 1..MaxLimit /\ loc[p].offset >= 0
            /\ (IsNumeral(req[p].limit) =>
                    FitsInt(req[p].limit) \/ ExceedsInt(req[p].limit))
            /\ Decimal(loc[p].limit) = AmendedLimit(req[p].limit)
            /\ Decimal(loc[p].offset) = AmendedOffset(req[p].offset)
            /\ resp[p].status = StatusOK =>
                 /\ resp[p].pagination.present
                 /\ resp[p].pagination.limit = loc[p].limit
                 /\ resp[p].pagination.offset = loc[p].offset

\* A list asked for limit=500 and offset=5 was served with limit 100 and
\* offset 5, and says so in its pagination metadata.
C10_Witness ==
    \E p \in Procs :
        /\ pc[p] = "done" /\ req[p].kind = "list"
        /\ req[p].limit = <<"5", "0", "0">> /\ req[p].offset = <<"5">>
        /\ loc[p].limit = MaxLimit /\ loc[p].offset = 5
        /\ resp[p].status = StatusOK
        /\ resp[p].pagination.limit = MaxLimit /\ resp[p].pagination.offset = 5

\* The worker's step that wrote the response of a request of the given kind.
Responded(p, kind) == pc[p] # "done" /\ pc'[p] = "done" /\ req'[p].kind = kind

\* The path parameter is the decimal form of an integer of the int type.
IsIntegerText(s) == IsNumeral(s) /\ ~ExceedsInt(s)

\* The path parameter names the given row id.
NamesID(s, id) == IsNumeral(s) /\ ~IsNegative(s) /\ Magnitude(s) = Decimal(id)

\* The request is valid but for the row its path id names: a get or delete,
\* or an update with a well-formed body that has a SKU and a name.
OtherwiseValid(r) ==
    r.kind = "update" =>
        r.body.wellformed /\ r.body.product.sku # "" /\ r.body.product.name # ""

\* C11: the Get, Update and Delete handlers answer 400 to a path identifier
\* that does not parse as an integer, and answer 404, leaving the store
\* unchanged, to a well-formed numeric identifier of an otherwise valid
\* request for which no row is stored.
C11_BadIDAndAbsentID ==
    [][\A p \in Procs : \A kind \in {"get", "update", "delete"} :
        Responded(p, kind) =>
            /\ (req'[p].id # <<>> /\ ~IsIntegerText(req'[p].id)) =>
                    resp'[p].status = StatusBadRequest /\ products' = products
            /\ (/\ IsIntegerText(req'[p].id)
                /\ OtherwiseValid(req'[p])
                /\ \A r \in products : ~NamesID(req'[p].id, r.id)) =>
                    resp'[p].status = StatusNotFound /\ products' = products]_vars

\* An update of id 9 with a valid body was answered 404 by a store that
\* holds other rows.
C11_Witness ==
    \E p \in Procs :
        /\ pc[p] = "done" /\ req[p].kind = "update"
        /\ req[p].id = <<"9">> /\ OtherwiseValid(req[p])
        /\ products # {}
        /\ resp[p].status = StatusNotFound

\* The exchange is a POST of a valid product whose SKU no stored row has.
FreshPost(x) ==
    /\ x.req.kind = "create" /\ ValidCreate(x.req)
    /\ RowsBySKU(x.before, x.req.body.product.sku) = {}

\* The fields of a product a client posts.
PostedFields(a) == <<a.sku, a.name, a.description, a.quantity, a.unit_price>>

\* The posted fields as the price column keeps them.
KeptFields(a) ==
    <<a.sku, a.name, a.description, a.quantity, RoundCents(a.unit_price)>>

\* From place i the trail holds a product's life: the POST of a product with
\* an unused SKU, then GET, PUT with only the quantity changed, DELETE and
\* GET of the id the POST returned.
Life(i) ==
    /\ i + 4 <= Len(trail)
    /\ FreshPost(trail[i])
    /\ LET id == trail[i].resp.data.product.id
           posted == trail[i].req.body.product
           put == trail[i + 2].req.body
       IN  /\ trail[i + 1].req.kind = "get" /\ NamesID(trail[i + 1].req.id, id)
           /\ trail[i + 2].req.kind = "update" /\ NamesID(trail[i + 2].req.id, id)
           /\ put.wellformed
           /\ put.product.quantity # posted.quantity
           /\ [put.product EXCEPT !.quantity = posted.quantity] = posted
           /\ trail[i + 3].req.kind = "delete" /\ NamesID(trail[i + 3].req.id, id)
           /\ trail[i + 4].req.kind = "get" /\ NamesID(trail[i + 4].req.id, id)

\* C12 as claimed: for a product with an unused SKU and no store faults, the
\* requests POST, GET id, PUT id with changed quantity, DELETE id, GET id
\* are answered 201 with a non-zero id, 200 with fields identical to what
\* was posted, 200 with the new quantity and an updated timestamp later than
\* the one the POST returned, 204 and 404.
C12_AsClaimed ==
    \A i \in 1..Len(trail) :
        /\ FreshPost(trail[i]) =>
              /\ trail[i].resp.status = StatusCreated
              /\ trail[i].resp.data.product.id # ZeroInt
        /\ Life(i) =>
              LET post == trail[i]
                  got == trail[i + 1].resp
                  put == trail[i + 2]
              IN  /\ got.status = StatusOK
                  /\ got.data.product.id = post.resp.data.product.id
                  /\ PostedFields(got.data.product)
                        = PostedFields(post.req.body.product)
                  /\ put.resp.status = StatusOK
                  /\ put.resp.data.product.quantity = put.req.body.product.quantity
                  /\ put.resp.data.product.updated_at
                        > post.resp.data.product.updated_at
                  /\ trail[i + 3].resp.status = StatusNoContent
                  /\ trail[i + 4].resp.status = StatusNotFound

\* C12, amended: the same statuses; the GET returns the posted fields with
\* the unit price rounded to cents, and the PUT returns an updated timestamp
\* that is not earlier than the one the POST returned.
C12_ProductLife ==
    \A i \in 1..Len(trail) :
        /\ FreshPost(trail[i]) =>
              /\ trail[i].resp.status = StatusCreated
              /\ trail[i].resp.data.product.id # ZeroInt
        /\ Life(i) =>
              LET post == trail[i]
                  got == trail[i + 1].resp
                  put == trail[i + 2]
              IN  /\ got.status = StatusOK
                  /\ got.data.product.id = post.resp.data.product.id
                  /\ PostedFields(got.data.product)
                        = KeptFields(post.req.body.product)
                  /\ put.resp.status = StatusOK
                  /\ put.resp.data.product.quantity = put.req.body.product.quantity
                  /\ put.resp.data.product.updated_at
                        >= post.resp.data.product.updated_at
                  /\ trail[i + 3].resp.status = StatusNoContent
                  /\ trail[i + 4].resp.status = StatusNotFound

\* The client has walked a product through its life, the clock having moved
\* between the POST and the PUT.
C12_Witness ==
    /\ Life(1)
    /\ trail[5].resp.status = StatusNotFound
    /\ trail[3].resp.data.product.updated_at > trail[1].resp.data.product.updated_at
    /\ trail[2].resp.data.product.unit_price # trail[1].req.body.product.unit_price

\* The request has a fault the handlers validate: a missing or non-integer
\* path id (get, update, delete); a malformed body, an empty SKU or an empty
\* name (create, update).
ValidationFault(r) ==
    \/ /\ r.kind \in {"get", "update", "delete"}
       /\ r.id = <<>> \/ ~IsIntegerText(r.id)
    \/ /\ r.kind \in {"create", "update"}
       /\ \/ ~r.body.wellformed
          \/ r.body.product.sku = ""
          \/ r.body.product.name = ""

\* C13: a request with a validation fault is answered 400 without the
\* handler having invoked any data-access operation for it, and the store
\* is unchanged; no other request is answered 400.
C13_ValidationBeforeStore ==
    [][\A p \in Procs : \A kind \in {"list", "get", "create", "update", "delete"} :
        Responded(p, kind) =>
            /\ ValidationFault(req'[p]) =>
                  /\ resp'[p].status = StatusBadRequest
                  /\ loc'[p].calls = <<>>
                  /\ products' = products
            /\ resp'[p].status = StatusBadRequest => ValidationFault(req'[p])]_vars

\* An update of a stored row with an empty name was answered 400, no
\* data-access operation invoked.
C13_Witness ==
    \E p \in Procs :
        /\ pc[p] = "done" /\ req[p].kind = "update"
        /\ IsIntegerText(req[p].id)
        /\ \E r \in products : NamesID(req[p].id, r.id)
        /\ req[p].body.wellformed /\ req[p].body.product.name = ""
        /\ resp[p].status = StatusBadRequest
        /\ loc[p].calls = <<>>

\* A fault other than NotFound.
InternalFault(err) == err # NoErr /\ err # ErrNotFound

\* C14: whenever a data-access call made while serving a request returns a
\* fault other than NotFound, the handler makes no further data-access call
\* for that request and answers it with an error status, not a 2xx; the
\* getBySKU pre-check of the Create handler included.
C14_NoFaultSwallowed ==
    \A p \in Procs :
        \A i \in 1..Len(loc[p].errs) :
            InternalFault(loc[p].errs[i]) =>
                /\ Len(loc[p].calls) = i
                /\ pc[p] = "done" => resp[p].status >= StatusBadRequest

\* C15: in every reachable state, every stored product has an updated
\* timestamp that is not earlier than its created timestamp, and its
\* identifier and created timestamp are those assigned when it was created,
\* the clock never running backwards.
C15_UpdatedNotBeforeCreated ==
    \A r \in products :
        /\ r.updated_at >= r.created_at
        /\ r.id \in created
        /\ \E w \in wrote : w.id = r.id /\ w.created_at = r.created_at

\* C16: an update of a stored product that sets its SKU to the SKU of a
\* different stored product makes no uniqueness pre-check (its one
\* data-access call is the update), fails with an Internal fault that the
\* Update handler answers 500, not 409 or 404, and leaves every stored row
\* unchanged.
C16_UpdateToTakenSKU ==
    [][\A p \in Procs :
        (/\ Moved(p, "update_exec", "done")
         /\ RowsByID(products, loc[p].product.id) # {}
         /\ \E r \in products :
              r.id # loc[p].product.id /\ r.sku = loc[p].product.sku)
        => /\ loc'[p].calls = <<"Update">>
           /\ ErrKind(loc'[p].err) = "Internal"
           /\ resp'[p].status = StatusInternalServerError
           /\ products' = products]_vars

\* An update of one of two stored rows to the SKU of the other was answered
\* 500.
C16_Witness ==
    \E p \in Procs :
        /\ pc[p] = "done" /\ req[p].kind = "update"
        /\ resp[p].status = StatusInternalServerError
        /\ loc[p].err.cause = "unique_violation"
        /\ \E r1, r2 \in products :
              /\ r1.id = loc[p].product.id
              /\ r2.id # r1.id
              /\ r2.sku = req[p].body.product.sku
              /\ r1.sku # r2.sku

\* C17: whatever the body's id field (absent, equal to or different from the
\* path id), a successful PUT /api/v1/products/{id} modifies only the row
\* with the path id: every other stored row, the one whose id equals the
\* body's id included, is left unchanged, and no row is added or removed.
C17_UpdateTargetsPathID ==
    [][\A p \in Procs :
        (Responded(p, "update") /\ resp'[p].status = StatusOK) =>
            /\ \A r \in products :
                  ~NamesID(req'[p].id, r.id) => r \in products'
            /\ \A r \in products' :
                  ~NamesID(req'[p].id, r.id) => r \in products
            /\ \E r \in products' :
                  /\ NamesID(req'[p].id, r.id)
                  /\ PostedFields(r) = KeptFields(req'[p].body.product)
            /\ Cardinality(products') = Cardinality(products)]_vars

\* A PUT of path id 1 whose body carries id 2 succeeded with rows 1 and 2
\* stored: row 1 has the body's fields, row 2 has not.
C17_Witness ==
    \E p \in Procs :
        /\ pc[p] = "done" /\ req[p].kind = "update"
        /\ resp[p].status = StatusOK
        /\ req[p].id = <<"1">> /\ req[p].body.product.id = 2
        /\ \E r1, r2 \in products :
              /\ r1.id = 1 /\ r2.id = 2
              /\ PostedFields(r1) = KeptFields(req[p].body.product)
              /\ PostedFields(r2) # KeptFields(req[p].body.product)

\* C18: on a successful PUT (status 200) the record in the response payload
\* is the updated record: every field of it, the created timestamp included,
\* equals the field of the row getByID returns for that id right afterwards.
C18_PutReturnsStoredRecord ==
    [][\A p \in Procs :
        (Responded(p, "update") /\ resp'[p].status = StatusOK) =>
            LET got == GetByID(products', loc'[p].product.id, FALSE)
            IN  /\ got.err = NoErr
                /\ resp'[p].data.kind = "product"
                /\ resp'[p].data.product = got.product]_vars

\* The worker is serving a request that it has not yet answered.
Serving(p) == pc[p] \notin {"idle", "done"}

\* C19: every request handled by a product handler terminates with exactly
\* one response written and invokes each data-access operation at most once;
\* a store call that fails or is cut off by the request context's timeout or
\* cancellation is the request's last one and is answered with an error
\* response.
C19_OneResponseNoRetry ==
    /\ [](\A p \in Procs :
            /\ pc[p] = "done" => loc[p].writes = 1
            /\ Serving(p) => loc[p].writes = 0
            /\ \A i, j \in 1..Len(loc[p].calls) :
                  i # j => loc[p].calls[i] # loc[p].calls[j]
            /\ \A i \in 1..Len(loc[p].errs) :
                  loc[p].errs[i].cause = "fault" =>
                      /\ Len(loc[p].calls) = i
                      /\ pc[p] = "done" => resp[p].status >= StatusBadRequest)
    /\ \A p \in Procs : Serving(p) ~> pc[p] = "done"

\* C20: in every 200 response of the List handler the page and the reported
\* total are consistent, also when other requests create or delete products
\* meanwhile: the number of records returned is min(limit, max(0, total -
\* offset)) for the limit, offset and total of the response's pagination
\* metadata.
C20_PageMatchesTotal ==
    \A p \in Procs :
        (/\ pc[p] = "done" /\ req[p].kind = "list"
         /\ resp[p].status = StatusOK)
        => /\ resp[p].pagination.present
           /\ Len(resp[p].data.list)
                = Min2(resp[p].pagination.limit,
                       Max2(0, resp[p].pagination.total - resp[p].pagination.offset))

====
